---- MODULE Spec2Model ----
(***************************************************************************)
(* The whale watcher: monitor_markets (whale detection, candidate          *)
(* collection), process_scheduler (the budgeted drain loop) and the state  *)
(* store (load_state, cleanup_state, save_state), as a state machine.      *)
(*                                                                         *)
(* Money is kept in cents (a price of 0.80 is 80) so that every quantity   *)
(* of the program is an integer; time is in seconds as time.time() gives   *)
(* it; a calendar date is the number of the day.                           *)
(***************************************************************************)
EXTENDS Integers, Sequences, FiniteSets, TLC

\* ---------------------------------------------------------------- constants

MAX_AI_CALLS_PER_DAY == 13
MIN_SECONDS_BETWEEN_AI_ALERTS == 30
WHALE_THRESHOLD == 10000
\* process_scheduler: "if MIN_SECONDS_BETWEEN_AI_ALERTS >= 60"
BURST_LIMIT == 60
\* process_scheduler: "if now - last_event_ts < 21600"
EVENT_COOLDOWN == 21600
\* process_scheduler: "now - c['timestamp'] < 3600"
CANDIDATE_TTL == 3600
\* process_scheduler: "cand['score'] / (1 + (usage * 50))"
CATEGORY_PENALTY == 50
\* process_scheduler: "time.sleep(3)"
SEND_SLEEP == 3
\* main: "time.sleep(60)"
TICK_SLEEP == 60
\* monitor_markets: "abs(analysis['price_change']) * 10000"
PRICE_WEIGHT == 10000
\* analyze_market_activity: "total_volume > 5000"
VOLUME_THRESHOLD == 5000
\* analyze_market_activity: "abs(price_change) > 0.05", in cents
MOVE_THRESHOLD == 5
\* cleanup_state: "now - timestamp < 86400"
INSIGHT_TTL == 86400
\* cleanup_state: "state['trades'][-5000:]"
MAX_TRADES == 5000
\* cleanup_state: "state['smart_positions'][-1000:]"
MAX_POSITIONS == 1000
\* time.strftime("%Y-%m-%d"): a calendar day has 86400 seconds
SECONDS_PER_DAY == 86400

\* ------------------------------------------------------------------- bounds

\* the number of ticks (calls of monitor_markets) of one behaviour
MaxTicks == 2
\* the number of candidates the queue holds
MaxQueue == 3
\* the number of process terminations of one behaviour
MaxRestarts == 1
\* the same for the behaviours of one day in which every market is active
DayTicks == 4
DayQueue == 4
\* the ticks of a behaviour that fills the dedup sets, and the ids one tick adds
CapTicks == 2
MaxNewIds == 2

\* ---------------------------------------------------------------- the world

\* The events the venue lists: slug and the category monitor_markets derives
\* from the tags.
EventA == [slug |-> "a", category |-> "politics"]
EventB == [slug |-> "b", category |-> "tech"]
EventC == [slug |-> "c", category |-> "politics"]
EventD == [slug |-> "d", category |-> "other"]
AllEvents == {EventA, EventB, EventC, EventD}
Slugs == {e.slug : e \in AllEvents}
Categories == {e.category : e \in AllEvents}

\* Trades as fetch_recent_trades returns them.  numeric is whether float() of
\* the price field succeeds; price is in cents.
Whale1 == [id |-> "t1", price |-> 80, size |-> 20000, timestamp |-> 10, numeric |-> TRUE]
Whale2 == [id |-> "t2", price |-> 50, size |-> 30000, timestamp |-> 11, numeric |-> TRUE]
Small1 == [id |-> "t3", price |-> 50, size |-> 100, timestamp |-> 12, numeric |-> TRUE]
Small2 == [id |-> "t4", price |-> 60, size |-> 100, timestamp |-> 13, numeric |-> TRUE]
BadPrice == [id |-> "t5", price |-> 0, size |-> 100, timestamp |-> 1, numeric |-> FALSE]
TradeIds == {"t1", "t2", "t3", "t4", "t5"}

\* The batches one market's fetch can return.
Batches ==
    { <<Whale1, Whale1>>,
      <<Small2, Small1>>,
      <<Whale1, BadPrice>> }

\* The markets one tick's fetch_expiring_events can list, by their events.
FetchPlans ==
    { << >>, <<EventA>>, <<EventB>>, <<EventA, EventB>>, <<EventA, EventA>> }

\* A day in which the four events are active at every tick, six hours apart.
DayPlans == { <<EventA, EventB, EventC, EventD>> }
DayBatches == { <<Small2, Small1>> }
DayDelays == {EVENT_COOLDOWN}

\* The seconds a tick's sleep and the calls before it take.
Delays == {TICK_SLEEP, CANDIDATE_TTL, EVENT_COOLDOWN, SECONDS_PER_DAY}
\* The seconds the analysis and delivery calls of one drain iteration take.
CallSeconds == {30}

\* The clock when the process first starts: the beginning of day 1.
StartClock == SECONDS_PER_DAY

\* ------------------------------------------------------------ pure helpers

Range(s) == {s[i] : i \in 1..Len(s)}

Abs(x) == IF x < 0 THEN -x ELSE x

\* time.strftime("%Y-%m-%d") at time t
Date(t) == t \div SECONDS_PER_DAY

RECURSIVE Perms(_)
\* the orders list(a_set) can give
Perms(S) ==
    IF S = {} THEN { << >> }
    ELSE UNION { { <<x>> \o p : p \in Perms(S \ {x}) } : x \in S }

\* nothing removed
RemoveFirst_Nothing(q, x) == q

\* the elements before x going with it
RemoveFirst_AndBefore(q, x) ==
    LET i == CHOOSE k \in 1..Len(q) : q[k] = x /\ \A j \in 1..(k - 1) : q[j] # x
    IN  SubSeq(q, i + 1, Len(q))

\* list.remove(x): the first element equal to x goes
RemoveFirst(q, x) ==
    LET i == CHOOSE k \in 1..Len(q) : q[k] = x /\ \A j \in 1..(k - 1) : q[j] # x
    IN  SubSeq(q, 1, i - 1) \o SubSeq(q, i + 1, Len(q))

RECURSIVE InsertByTimestamp(_, _)
InsertByTimestamp(s, t) ==
    IF s = << >> THEN <<t>>
    ELSE IF s[Len(s)].timestamp <= t.timestamp THEN Append(s, t)
    ELSE Append(InsertByTimestamp(SubSeq(s, 1, Len(s) - 1), t), s[Len(s)])

RECURSIVE SortByTimestamp(_)
\* sorted(trades, key=timestamp): ascending and stable
SortByTimestamp(trades) ==
    IF trades = << >> THEN << >>
    ELSE InsertByTimestamp(SortByTimestamp(SubSeq(trades, 1, Len(trades) - 1)),
                           trades[Len(trades)])

RECURSIVE TotalVolume(_)
\* the loop over trades: a trade whose float() fails is skipped
TotalVolume(trades) ==
    IF trades = << >> THEN 0
    ELSE (IF trades[1].numeric THEN trades[1].price * trades[1].size ELSE 0)
         + TotalVolume(Tail(trades))

\* analyze_market_activity: "none", "raise" (float() of the first or last
\* price fails outside any try) or the metrics; total_volume in cents,
\* price_change in cents.
analyze_market_activity(trades) ==
    IF trades = << >> THEN [res |-> "none", total_volume |-> 0, price_change |-> 0]
    ELSE LET sorted_trades == SortByTimestamp(trades)
             first == sorted_trades[1]
             last == sorted_trades[Len(sorted_trades)]
         IN  IF ~first.numeric \/ ~last.numeric
             THEN [res |-> "raise", total_volume |-> 0, price_change |-> 0]
             ELSE LET total_volume == TotalVolume(trades)
                      price_change == last.price - first.price
                      is_interesting ==
                          \/ total_volume > VOLUME_THRESHOLD * 100
                          \/ Abs(price_change) > MOVE_THRESHOLD
                  IN  [res |-> IF is_interesting THEN "ok" ELSE "none",
                       total_volume |-> total_volume,
                       price_change |-> price_change]

\* the score without the volume
Score_PriceOnly(analysis) == Abs(analysis.price_change) * PRICE_WEIGHT

\* monitor_markets: score = total_volume + abs(price_change) * 10000, in cents
Score(analysis) ==
    analysis.total_volume + Abs(analysis.price_change) * PRICE_WEIGHT

\* the candidate monitor_markets appends
Candidate(event, analysis, t) ==
    [score |-> Score(analysis), event_slug |-> event.slug,
     event_category |-> event.category, timestamp |-> t]

\* ------------------------------------------------------------ the scheduler

\* the budget check left out
BudgetReached_Never(count) == FALSE

\* the budget check off by one
BudgetReached_OffByOne(count) == count > MAX_AI_CALLS_PER_DAY

\* "if count >= MAX_AI_CALLS_PER_DAY"
BudgetReached(count) == count >= MAX_AI_CALLS_PER_DAY

\* the interval check left out
TooSoon_Never(now, last_sent, configured) == FALSE

\* "if MIN_SECONDS_BETWEEN_AI_ALERTS >= 60: if now - last_sent < MIN_..."
TooSoon(now, last_sent, configured) ==
    /\ configured >= BURST_LIMIT
    /\ now - last_sent < configured

\* the cooldown check with the candidates' hour in place of the six hours
OnCooldown_OneHour(insights, slug, now) == now - insights[slug] < CANDIDATE_TTL

\* "if now - last_event_ts < 21600: continue"
OnCooldown(insights, slug, now) == now - insights[slug] < EVENT_COOLDOWN

\* the raw scores compared
AdjustedGE_Raw(c1, c2, cat_usage) == c1.score >= c2.score

\* adjusted_score(c1) >= adjusted_score(c2), both being
\* score / (1 + usage * 50), compared without dividing
AdjustedGE(c1, c2, cat_usage) ==
    c1.score * (1 + cat_usage[c2.event_category] * CATEGORY_PENALTY)
        >= c2.score * (1 + cat_usage[c1.event_category] * CATEGORY_PENALTY)

RECURSIVE InsertByScore(_, _, _)
InsertByScore(s, c, cat_usage) ==
    IF s = << >> THEN <<c>>
    ELSE IF AdjustedGE(s[Len(s)], c, cat_usage) THEN Append(s, c)
    ELSE Append(InsertByScore(SubSeq(s, 1, Len(s) - 1), c, cat_usage), s[Len(s)])

RECURSIVE SortByScore(_, _)
\* scored_candidates.sort(key=adjusted_score, reverse=True): descending, stable
SortByScore(q, cat_usage) ==
    IF q = << >> THEN << >>
    ELSE InsertByScore(SortByScore(SubSeq(q, 1, Len(q) - 1), cat_usage),
                       q[Len(q)], cat_usage)

\* the candidates of the sorted list that the scan does not pass over
Eligible(q, st, now) ==
    LET scored_candidates == SortByScore(q, st.ai_usage.categories)
    IN  SelectSeq(scored_candidates,
                  LAMBDA c : ~OnCooldown(st.insights, c.event_slug, now))

\* "Pick Best": the first candidate of the sorted list not on cooldown
Best(q, st, now) == Head(Eligible(q, st, now))

\* what the head of one iteration of the while loop decides
StopReason(st, q, now, configured) ==
    IF BudgetReached(st.ai_usage.count) THEN "budget"
    ELSE IF TooSoon(now, st.ai_usage.last_sent_ts, configured) THEN "interval"
    ELSE IF q = << >> THEN "empty"
    ELSE IF Eligible(q, st, now) = << >> THEN "no_valid"
    ELSE "go"

\* the advisory section put into every message
HasAdvisory_Always(ai_report) == TRUE

\* "ai_section = ... if ai_report else ''": the message has the advisory
\* section when analyze_opportunity returned a text and not None
HasAdvisory(ai_report) == ai_report

\* the assignments without the one to the category's usage
RecordSent_NoCategory(st, best, t) ==
    [st EXCEPT !.ai_usage.count = @ + 1,
               !.ai_usage.last_sent_ts = t,
               !.insights[best.event_slug] = t]

\* the assignments without the one to state["insights"]
RecordSent_NoCooldown(st, best, t) ==
    [st EXCEPT !.ai_usage.count = @ + 1,
               !.ai_usage.last_sent_ts = t,
               !.ai_usage.categories[best.event_category] = @ + 1]

\* "if notifier.send_message(msg):" and the four assignments under it
RecordSent(st, best, t) ==
    [st EXCEPT !.ai_usage.count = @ + 1,
               !.ai_usage.last_sent_ts = t,
               !.insights[best.event_slug] = t,
               !.ai_usage.categories[best.event_category] = @ + 1]

\* the assignments made whatever the delivery call returned
AfterDelivery_Unconditional(st, best, ok, t) == RecordSent(st, best, t)

\* the state after the delivery call returned ok
AfterDelivery(st, best, ok, t) == IF ok THEN RecordSent(st, best, t) ELSE st

\* "Cleanup old candidates"
Prune(q, now) == SelectSeq(q, LAMBDA c : now - c.timestamp < CANDIDATE_TTL)

\* ----------------------------------------------------------- the state store

NoInsights == [s \in Slugs |-> 0]
NoCategories == [c \in Categories |-> 0]

\* the record load_state builds when the file cannot be read
DefaultState(t) ==
    [trades |-> << >>,
     insights |-> NoInsights,
     smart_positions |-> << >>,
     ai_usage |-> [count |-> 0, date |-> Date(t), last_sent_ts |-> 0,
                   categories |-> NoCategories]]

\* the file: absent, unreadable (truncated) or holding a saved state
AbsentFile == [kind |-> "absent", data |-> DefaultState(0)]
CorruptFile == [kind |-> "corrupt", data |-> DefaultState(0)]
SavedFile(st) == [kind |-> "file", data |-> st]

\* load_state: has_ai_usage is whether the returned dict has the key
\* "ai_usage" (the dict returned for an absent file has not)
load_state(file, t) ==
    IF file.kind = "absent"
    THEN [has_ai_usage |-> FALSE,
          state |-> [DefaultState(t) EXCEPT !.ai_usage.date = 0]]
    ELSE IF file.kind = "corrupt"
    THEN [has_ai_usage |-> TRUE, state |-> DefaultState(t)]
    ELSE [has_ai_usage |-> TRUE, state |-> file.data]

\* the reset made at every cleanup pass
DateChanged_Always(st, t) == TRUE

\* "if state['ai_usage']['date'] != today"
DateChanged(st, t) == st.ai_usage.date # Date(t)

\* the slice taken one entry too long
CapTrades_OneMore(trades) ==
    IF Len(trades) > MAX_TRADES
    THEN SubSeq(trades, Len(trades) - MAX_TRADES, Len(trades))
    ELSE trades

\* "state['trades'][-5000:]"
CapTrades(trades) ==
    IF Len(trades) > MAX_TRADES
    THEN SubSeq(trades, Len(trades) - MAX_TRADES + 1, Len(trades))
    ELSE trades

\* "state['smart_positions'][-1000:]"
CapPositions(positions) ==
    IF Len(positions) > MAX_POSITIONS
    THEN SubSeq(positions, Len(positions) - MAX_POSITIONS + 1, Len(positions))
    ELSE positions

\* "if now - timestamp < 86400" keeps the entry; an entry that is dropped
\* reads as 0, as state["insights"].get(slug, 0) does
PurgeInsights(insights, t) ==
    [s \in Slugs |-> IF t - insights[s] < INSIGHT_TTL THEN insights[s] ELSE 0]

cleanup_state(st, t) ==
    LET usage == IF DateChanged(st, t)
                 THEN [st.ai_usage EXCEPT !.count = 0, !.date = Date(t),
                                          !.categories = NoCategories]
                 ELSE st.ai_usage
    IN  [trades |-> CapTrades(st.trades),
         insights |-> PurgeInsights(st.insights, t),
         smart_positions |-> CapPositions(st.smart_positions),
         ai_usage |-> usage]

\* ----------------------------------------------------------- whale detector

\* "trade_value = price * size; if trade_value >= WHALE_THRESHOLD"; a price
\* float() cannot read raises inside the try and the trade is passed over
IsWhale(trade) ==
    /\ trade.numeric
    /\ trade.price * trade.size >= WHALE_THRESHOLD * 100

\* the check against the dedup set left out
AlreadyNotified_Never(id, ids) == FALSE

\* "if trade_id in notified_trade_ids: continue"
AlreadyNotified(id, ids) == id \in ids

\* the ids of a fetched batch for which an alert is due
WhaleIds(b, ids) ==
    {b[i].id : i \in {k \in 1..Len(b) : IsWhale(b[k]) /\ ~AlreadyNotified(b[k].id, ids)}}

\* --------------------------------------------------------------- the process

VARIABLES
    clock,               \* time.time()
    pc,                  \* where the process is
    state,               \* the dict main passes to monitor_markets
    disk,                \* bot_state.json
    insight_candidates,  \* the module's global queue
    events,              \* the markets the tick has still to visit
    batch,               \* the trades of the current market still to check
    notified_trade_ids,  \* monitor_markets's local set
    ticks,               \* calls of monitor_markets so far
    restarts,            \* terminations so far
    ev,                  \* the collaborator call the last step made, if any
    sent,                \* analysis notifications delivered: [day, n] of the last day
    calls,               \* analysis calls made: [day, n] of the last day
    last_delivery,       \* per slug, when its last notification was delivered
    owed,                \* ids fetched in this tick for which an alert is due
    tried,               \* ids for which this tick attempted an alert
    delivered,           \* ids whose alert this tick delivered
    retry,               \* ids whose last alert had failed when the tick began
    failed,              \* ids whose last alert failed
    drain_failed,        \* a delivery of this tick's drain failed
    drain_sent,          \* slugs notified in this tick's drain
    drain_start,         \* ai_usage.count when this tick's drain began
    lost,                \* slugs whose last delivery a termination left unrecorded
    min_seconds          \* config.MIN_SECONDS_BETWEEN_AI_ALERTS as configured

vars == <<clock, pc, state, disk, insight_candidates, events, batch,
          notified_trade_ids, ticks, restarts, ev, sent, calls, last_delivery,
          owed, tried, delivered, retry, failed, drain_failed, drain_sent,
          drain_start, lost, min_seconds>>

tick_locals == <<events, batch, notified_trade_ids>>
whale_ghosts == <<owed, tried, delivered, retry>>
drain_ghosts == <<drain_failed, drain_sent, drain_start>>
day_ghosts == <<sent, calls, last_delivery, lost>>

NoEvent ==
    [kind |-> "none", seq |-> 0, id |-> "", ok |-> FALSE,
     now |-> 0, at |-> 0, last_event_ts |-> 0, prev |-> -1, cand_ts |-> 0,
     after_fail |-> FALSE, known |-> FALSE, passed |-> {},
     unrecorded |-> FALSE, report |-> FALSE, advisory |-> FALSE,
     cand |-> [score |-> 0, event_slug |-> "", event_category |-> "",
               timestamp |-> 0]]

\* the market loop's bookkeeping is dropped once the loop is over
ClearWhaleGhosts ==
    /\ owed' = {}
    /\ tried' = {}
    /\ delivered' = {}
    /\ retry' = {}

\* one more on the day of t
CountOn(c, t) ==
    IF c.day = Date(t) THEN [c EXCEPT !.n = @ + 1] ELSE [day |-> Date(t), n |-> 1]

\* The files a first start can find: none, or one an earlier run saved on
\* the day before or on this day, with a budget unused or nearly used.
InitialFiles ==
    {AbsentFile} \cup
    { SavedFile([DefaultState(StartClock) EXCEPT
                    !.ai_usage.count = c, !.ai_usage.date = d]) :
        c \in {0, MAX_AI_CALLS_PER_DAY - 1},
        d \in {Date(StartClock) - 1, Date(StartClock)} }

\* nothing has happened yet
NoHistory ==
    /\ clock = StartClock
    /\ state = DefaultState(0)
    /\ insight_candidates = << >>
    /\ notified_trade_ids = {}
    /\ ticks = 0
    /\ restarts = 0
    /\ ev = NoEvent
    /\ sent = [day |-> Date(StartClock), n |-> 0]
    /\ calls = [day |-> Date(StartClock), n |-> 0]
    /\ last_delivery = [s \in Slugs |-> -1]
    /\ owed = {}
    /\ tried = {}
    /\ delivered = {}
    /\ retry = {}
    /\ failed = {}
    /\ drain_failed = FALSE
    /\ drain_sent = {}
    /\ drain_start = 0
    /\ lost = {}

\* the process before its first start, whatever file and configuration it finds
NotStarted ==
    /\ NoHistory
    /\ pc = "down"
    /\ events = << >>
    /\ batch = << >>

Init ==
    /\ NotStarted
    /\ disk \in InitialFiles
    /\ min_seconds = MIN_SECONDS_BETWEEN_AI_ALERTS

\* the file holds the cooldown entry of the last delivery for slug
OnDisk(slug) ==
    /\ disk.kind = "file"
    /\ disk.data.insights[slug] >= last_delivery[slug]

\* main: load_state, then the log line that reads state['ai_usage']['count']
Start ==
    /\ pc = "down"
    /\ LET loaded == load_state(disk, clock)
       IN  IF loaded.has_ai_usage
           THEN /\ state' = loaded.state
                /\ pc' = "tick"
           ELSE /\ state' = state
                /\ pc' = "dead"
    /\ insight_candidates' = << >>
    /\ ev' = NoEvent
    /\ UNCHANGED min_seconds
    /\ UNCHANGED <<clock, disk, tick_locals, ticks, restarts, day_ghosts,
                   whale_ghosts, drain_ghosts, failed>>

\* the process is terminated from outside: its memory is lost
Terminate ==
    /\ pc \notin {"down", "dead"}
    /\ restarts < MaxRestarts
    /\ restarts' = restarts + 1
    /\ pc' = "down"
    /\ state' = DefaultState(0)
    /\ insight_candidates' = << >>
    /\ events' = << >>
    /\ batch' = << >>
    /\ notified_trade_ids' = {}
    /\ ev' = NoEvent
    /\ ClearWhaleGhosts
    /\ drain_failed' = FALSE
    /\ drain_sent' = {}
    /\ drain_start' = 0
    /\ lost' = lost \cup {s \in Slugs : /\ last_delivery[s] >= 0
                                         /\ clock - last_delivery[s] < EVENT_COOLDOWN
                                         /\ ~OnDisk(s)}
    /\ UNCHANGED min_seconds
    /\ UNCHANGED <<clock, disk, ticks, sent, calls, last_delivery, failed>>

\* monitor_markets up to the loop over the events
BeginTick(P, n) ==
    /\ pc = "tick"
    /\ ticks < n
    /\ ticks' = ticks + 1
    /\ events' \in P
    /\ batch' = << >>
    /\ notified_trade_ids' = Range(state.trades)
    /\ pc' = "markets"
    /\ ev' = NoEvent
    /\ owed' = {}
    /\ tried' = {}
    /\ delivered' = {}
    /\ retry' = failed \ Range(state.trades)
    /\ UNCHANGED min_seconds
    /\ UNCHANGED <<clock, state, disk, insight_candidates, restarts, day_ghosts,
                   failed, drain_ghosts>>

\* fetch_recent_trades, analyze_market_activity and the candidate appended;
\* an exception of analyze_market_activity ends the tick in the outer except
FetchTrades(B, n) ==
    /\ pc = "markets"
    /\ batch = << >>
    /\ events # << >>
    /\ \E trades \in B :
         LET analysis == analyze_market_activity(trades)
         IN  /\ owed' = owed \cup WhaleIds(trades, notified_trade_ids)
             /\ IF analysis.res = "raise"
                THEN /\ pc' = "sleep"
                     /\ events' = << >>
                     /\ batch' = << >>
                     /\ notified_trade_ids' = {}
                     /\ UNCHANGED insight_candidates
                ELSE /\ analysis.res = "ok" => Len(insight_candidates) < n
                     /\ insight_candidates' =
                          IF analysis.res = "ok"
                          THEN Append(insight_candidates,
                                      Candidate(Head(events), analysis, clock))
                          ELSE insight_candidates
                     /\ events' = Tail(events)
                     /\ batch' = trades
                     /\ UNCHANGED <<pc, notified_trade_ids>>
    /\ ev' = NoEvent
    /\ UNCHANGED min_seconds
    /\ UNCHANGED <<clock, state, disk, ticks, restarts, day_ghosts, tried,
                   delivered, retry, failed, drain_ghosts>>

\* one trade of the whale check that sends nothing
WhaleSkip ==
    /\ pc = "markets"
    /\ batch # << >>
    /\ ~IsWhale(Head(batch)) \/ AlreadyNotified(Head(batch).id, notified_trade_ids)
    /\ batch' = Tail(batch)
    /\ ev' = IF IsWhale(Head(batch))
             THEN [NoEvent EXCEPT !.kind = "skip", !.seq = 1 - ev.seq,
                                  !.id = Head(batch).id, !.at = clock,
                                  !.known = Head(batch).id \in
                                              Range(state.trades) \cup delivered]
             ELSE NoEvent
    /\ UNCHANGED min_seconds
    /\ UNCHANGED <<clock, pc, state, disk, insight_candidates, events,
                   notified_trade_ids, ticks, restarts, day_ghosts,
                   whale_ghosts, drain_ghosts, failed>>

\* one trade of the whale check that sends the alert
WhaleAlert ==
    /\ pc = "markets"
    /\ batch # << >>
    /\ IsWhale(Head(batch))
    /\ ~AlreadyNotified(Head(batch).id, notified_trade_ids)
    /\ \E ok \in BOOLEAN :
         LET id == Head(batch).id
         IN  /\ notified_trade_ids' =
                  IF ok THEN notified_trade_ids \cup {id} ELSE notified_trade_ids
             /\ ev' = [NoEvent EXCEPT !.kind = "whale", !.seq = 1 - ev.seq,
                                      !.id = id, !.ok = ok, !.at = clock,
                                      !.known = id \in Range(state.trades) \cup delivered]
             /\ tried' = tried \cup {id}
             /\ delivered' = IF ok THEN delivered \cup {id} ELSE delivered
             /\ failed' = IF ok THEN failed \ {id} ELSE failed \cup {id}
    /\ batch' = Tail(batch)
    /\ UNCHANGED min_seconds
    /\ UNCHANGED <<clock, pc, state, disk, insight_candidates, events, ticks,
                   restarts, day_ghosts, owed, retry, drain_ghosts>>

\* the loops left as soon as the events are fetched, the last market's
\* trades still to check
MarketsDone_Early(evts, trades) == evts = << >>

\* "for event in events: ... for trade in trades:" both loops are over
MarketsDone(evts, trades) == evts = << >> /\ trades = << >>

\* "state['trades'] = list(notified_trade_ids)"; the smart money scan that
\* follows finds no position in these behaviours
UpdateTrades ==
    /\ pc = "markets"
    /\ MarketsDone(events, batch)
    /\ \E trades \in Perms(notified_trade_ids) :
         state' = [state EXCEPT !.trades = trades]
    /\ pc' = "drain"
    /\ ev' = NoEvent
    /\ drain_start' = state.ai_usage.count
    /\ UNCHANGED min_seconds
    /\ UNCHANGED <<clock, disk, insight_candidates, tick_locals, ticks, restarts,
                   day_ghosts, whale_ghosts, drain_failed, drain_sent, failed>>

\* an iteration of the while loop that returns
DrainReturn ==
    /\ pc = "drain"
    /\ StopReason(state, insight_candidates, clock, min_seconds) # "go"
    /\ pc' = "cleanup"
    /\ ev' = NoEvent
    /\ ClearWhaleGhosts
    /\ UNCHANGED min_seconds
    /\ UNCHANGED <<clock, state, disk, insight_candidates, tick_locals, ticks,
                   restarts, day_ghosts, drain_ghosts, failed>>

\* the call of the analysis collaborator, as the properties see it
AnalysisEvent(best, now, t, ok) ==
    [NoEvent EXCEPT !.kind = "analysis", !.seq = 1 - ev.seq,
                    !.id = best.event_slug, !.ok = ok,
                    !.now = now, !.at = t,
                    !.last_event_ts = state.insights[best.event_slug],
                    !.prev = last_delivery[best.event_slug],
                    !.cand_ts = best.timestamp,
                    !.after_fail = drain_failed,
                    !.passed = {c.event_slug : c \in Range(insight_candidates)}
                                 \cap drain_sent,
                    !.unrecorded = best.event_slug \in lost,
                    !.cand = best]

\* an iteration of the while loop that picks a candidate, calls the analysis
\* and the delivery, and sleeps
DrainSend ==
    /\ pc = "drain"
    /\ StopReason(state, insight_candidates, clock, min_seconds) = "go"
    /\ \E d \in CallSeconds, ai_report \in BOOLEAN, ok \in BOOLEAN :
         LET now == clock
             best == Best(insight_candidates, state, now)
             t == clock + d
         IN  /\ insight_candidates' = RemoveFirst(insight_candidates, best)
             /\ state' = AfterDelivery(state, best, ok, t)
             /\ clock' = t + SEND_SLEEP
             /\ ev' = [AnalysisEvent(best, now, t, ok)
                         EXCEPT !.report = ai_report,
                                !.advisory = HasAdvisory(ai_report)]
             /\ calls' = CountOn(calls, now)
             /\ sent' = IF ok THEN CountOn(sent, t) ELSE sent
             /\ last_delivery' =
                  IF ok THEN [last_delivery EXCEPT ![best.event_slug] = t]
                  ELSE last_delivery
             /\ drain_failed' = (drain_failed \/ ~ok)
             /\ drain_sent' = IF ok THEN drain_sent \cup {best.event_slug}
                              ELSE drain_sent
             /\ lost' = IF ok THEN lost \ {best.event_slug} ELSE lost
    /\ ClearWhaleGhosts
    /\ UNCHANGED min_seconds
    /\ UNCHANGED <<pc, disk, tick_locals, ticks, restarts, failed, drain_start>>

\* an iteration whose try block raises: the except breaks the loop and the
\* old candidates are dropped
DrainRaise ==
    /\ pc = "drain"
    /\ StopReason(state, insight_candidates, clock, min_seconds) = "go"
    /\ \E d \in CallSeconds :
         LET now == clock
             best == Best(insight_candidates, state, now)
         IN  /\ insight_candidates' =
                  Prune(RemoveFirst(insight_candidates, best), now)
             /\ clock' = clock + d
             /\ ev' = [AnalysisEvent(best, now, clock + d, FALSE)
                         EXCEPT !.kind = "raise"]
             /\ calls' = CountOn(calls, now)
    /\ drain_failed' = TRUE
    /\ pc' = "cleanup"
    /\ ClearWhaleGhosts
    /\ UNCHANGED min_seconds
    /\ UNCHANGED <<state, disk, tick_locals, ticks, restarts, sent,
                   last_delivery, failed, drain_sent, drain_start, lost>>

\* "state = state_manager.cleanup_state(state)"
CleanupState ==
    /\ pc = "cleanup"
    /\ state' = cleanup_state(state, clock)
    /\ pc' = "save"
    /\ ev' = NoEvent
    /\ drain_failed' = FALSE
    /\ drain_sent' = {}
    /\ drain_start' = 0
    /\ UNCHANGED min_seconds
    /\ UNCHANGED <<clock, disk, insight_candidates, tick_locals, ticks, restarts,
                   day_ghosts, whale_ghosts, failed>>

\* save_state: open(STATE_FILE, "w") empties the file
SaveOpen ==
    /\ pc = "save"
    /\ disk' = CorruptFile
    /\ pc' = "write"
    /\ UNCHANGED min_seconds
    /\ UNCHANGED <<clock, state, insight_candidates, tick_locals, ticks, restarts,
                   ev, day_ghosts, whale_ghosts, drain_ghosts, failed>>

\* save_state: json.dump writes the state
SaveWrite ==
    /\ pc = "write"
    /\ disk' = SavedFile(state)
    /\ pc' = "sleep"
    /\ UNCHANGED min_seconds
    /\ UNCHANGED <<clock, state, insight_candidates, tick_locals, ticks, restarts,
                   ev, day_ghosts, whale_ghosts, drain_ghosts, failed>>

\* save_state: open or json.dump raises, which is logged
SaveError ==
    /\ pc \in {"save", "write"}
    /\ pc' = "sleep"
    /\ UNCHANGED min_seconds
    /\ UNCHANGED <<clock, state, disk, insight_candidates, tick_locals, ticks,
                   restarts, ev, day_ghosts, whale_ghosts, drain_ghosts, failed>>

\* main: "time.sleep(60)", and whatever the next tick's fetches take
Sleep(D, n) ==
    /\ pc = "sleep"
    /\ ticks < n
    /\ \E d \in D : clock' = clock + d
    /\ pc' = "tick"
    /\ ev' = NoEvent
    /\ ClearWhaleGhosts
    /\ UNCHANGED min_seconds
    /\ UNCHANGED <<state, disk, insight_candidates, tick_locals, ticks, restarts,
                   day_ghosts, drain_ghosts, failed>>

Next ==
    \/ Start
    \/ Terminate
    \/ BeginTick(FetchPlans, MaxTicks)
    \/ FetchTrades(Batches, MaxQueue)
    \/ WhaleSkip
    \/ WhaleAlert
    \/ UpdateTrades
    \/ DrainReturn
    \/ DrainSend
    \/ DrainRaise
    \/ CleanupState
    \/ SaveOpen
    \/ SaveWrite
    \/ SaveError
    \/ Sleep(Delays, MaxTicks)

Spec == Init /\ [][Next]_vars

\* The process left running for a day, never terminated, with no whale trade
\* and no failing save.
NextDay ==
    \/ Start
    \/ BeginTick(DayPlans, DayTicks)
    \/ FetchTrades(DayBatches, DayQueue)
    \/ WhaleSkip
    \/ UpdateTrades
    \/ DrainReturn
    \/ DrainSend
    \/ CleanupState
    \/ SaveOpen
    \/ SaveWrite
    \/ Sleep(DayDelays, DayTicks)

SpecDay == Init /\ [][NextDay]_vars

\* The process under a configured interval below the limit of 60 seconds, as
\* config.py has it, and at the limit.
Intervals == {MIN_SECONDS_BETWEEN_AI_ALERTS, BURST_LIMIT}

InitInterval ==
    /\ NotStarted
    /\ disk \in InitialFiles
    /\ min_seconds \in Intervals

SpecInterval == InitInterval /\ [][Next]_vars

\* The dedup sets filling up.  An id of these behaviours is a number: the
\* ids are numbered in the order in which the program added them to the set.
Ascending(lo, n) == [i \in 1..n |-> lo + i - 1]

Reverse(l) == [i \in 1..Len(l) |-> l[Len(l) + 1 - i]]

\* list(set(old) | new): the order is that of the hash table; of the orders
\* it can give, the order of insertion and its reverse
ListOrders(old, new) ==
    UNION { {old \o a, Reverse(old \o a)} : a \in Perms(new) }

\* The files of a run that has notified nearly as many trades and positions
\* as the caps allow, and one event a minute before.
CapFiles ==
    { SavedFile([DefaultState(StartClock) EXCEPT
                    !.trades = Ascending(1, n),
                    !.smart_positions = Ascending(1, m),
                    !.insights["a"] = StartClock - TICK_SLEEP]) :
        n \in {MAX_TRADES - 1, MAX_TRADES},
        m \in {MAX_POSITIONS - 1, MAX_POSITIONS} }

CapDelays == {TICK_SLEEP, SECONDS_PER_DAY}

InitCaps ==
    /\ NotStarted
    /\ disk \in CapFiles
    /\ min_seconds = MIN_SECONDS_BETWEEN_AI_ALERTS

\* monitor_markets up to cleanup_state in a tick that delivers the alerts of
\* up to MaxNewIds new whale trades and of up to one new position, and finds
\* no candidate
FillTick ==
    /\ pc = "tick"
    /\ ticks < CapTicks
    /\ ticks' = ticks + 1
    /\ \E j \in 0..MaxNewIds, k \in 0..1 :
         LET new_trades == {MAX_TRADES + MaxNewIds * ticks + i : i \in 1..j}
             new_positions == {MAX_POSITIONS + ticks + i : i \in 1..k}
         IN  \E trades \in ListOrders(state.trades, new_trades),
                positions \in ListOrders(state.smart_positions, new_positions) :
               state' = [state EXCEPT !.trades = trades,
                                      !.smart_positions = positions]
    /\ pc' = "cleanup"
    /\ ev' = NoEvent
    /\ UNCHANGED min_seconds
    /\ UNCHANGED <<clock, disk, insight_candidates, tick_locals, restarts,
                   day_ghosts, whale_ghosts, drain_ghosts, failed>>

NextCaps ==
    \/ Start
    \/ FillTick
    \/ CleanupState
    \/ SaveOpen
    \/ SaveWrite
    \/ Sleep(CapDelays, CapTicks)

SpecCaps == InitCaps /\ [][NextCaps]_vars

\* ------------------------------------------------------------------ claims

\* C1: in every state of the running process, before and after the drain
\* loop of every tick, ai_usage.count is at most MAX_AI_CALLS_PER_DAY (the
\* count loaded at startup being at most MAX_AI_CALLS_PER_DAY).
C1_CountWithinBudget ==
    pc \notin {"down", "dead"} => state.ai_usage.count <= MAX_AI_CALLS_PER_DAY

\* C1 witness: the drain loop has stopped on the budget with a candidate
\* still queued.
C1_Witness ==
    /\ pc = "cleanup"
    /\ state.ai_usage.count = MAX_AI_CALLS_PER_DAY
    /\ insight_candidates # << >>

\* C2: the analysis notifications confirmed delivered within one calendar
\* day are at most MAX_AI_CALLS_PER_DAY.
C2_DeliveriesPerDay == sent.n <= MAX_AI_CALLS_PER_DAY

\* C3: the calls of the analysis collaborator within one calendar day are at
\* most MAX_AI_CALLS_PER_DAY, whatever the delivery calls return.
C3_AnalysisCallsPerDay == calls.n <= MAX_AI_CALLS_PER_DAY

\* C4: the scheduler never selects a candidate whose event has
\* insights[slug] = T with now - T < 21600, now being the time read at that
\* iteration; also not a second candidate of an event notified earlier in
\* the same drain.
C4_NoSelectionOnCooldown ==
    ev.kind \in {"analysis", "raise"} => ev.now - ev.last_event_ts >= EVENT_COOLDOWN

\* C4 witness: the drain ended, within budget, with a queued candidate of an
\* event notified earlier in the same drain passed over.
C4_Witness ==
    /\ pc = "cleanup"
    /\ ~BudgetReached(state.ai_usage.count)
    /\ \E c \in Range(insight_candidates) :
         /\ c.event_slug \in drain_sent
         /\ OnCooldown(state.insights, c.event_slug, clock)

\* C5 as claimed: for every event slug, any two confirmed analysis
\* notifications are at least 21600 seconds apart, over any sequence of
\* ticks, terminations and restarts, a termination between a delivery and the
\* save of the state included.
C5_SixHoursApartAcrossRestarts ==
    (ev.kind = "analysis" /\ ev.ok /\ ev.prev >= 0) => ev.at - ev.prev >= EVENT_COOLDOWN

\* C5 as amended: for every event slug, two consecutive confirmed analysis
\* notifications are at least 21600 seconds apart, unless between them the
\* process was terminated less than 21600 seconds after the first while the
\* file did not hold its cooldown entry (a termination between the delivery
\* and the end of a save_state that wrote the state, or inside a later
\* save_state).
C5_SixHoursApartWhenSaved ==
    (ev.kind = "analysis" /\ ev.ok /\ ev.prev >= 0 /\ ~ev.unrecorded)
        => ev.at - ev.prev >= EVENT_COOLDOWN

\* C5 witness: after a restart, an event is notified a second time, six
\* hours or more after the first.
C5_Witness ==
    /\ ev.kind = "analysis"
    /\ ev.ok
    /\ ev.prev >= 0
    /\ restarts > 0
    /\ ~ev.unrecorded

\* C6: no whale notification is attempted for a trade whose id is in the
\* dedup set: neither an id of state.trades at the start of the tick nor an
\* id delivered earlier in the same tick.
C6_NoAlertForKnownTrade == ev.kind = "whale" => ~ev.known

\* C6 witness: a whale trade seen a second time in one tick, after its alert
\* was delivered, is passed over.
C6_Witness ==
    /\ ev.kind = "skip"
    /\ ev.id \in delivered

\* C7: for every fetched trade with price * size >= WHALE_THRESHOLD whose id
\* is not in the dedup set a whale delivery is attempted in that tick,
\* whatever ai_usage and the cooldown map hold; and a step of the whale
\* processing leaves ai_usage and the cooldown map unchanged.
C7_WhaleAlertAttempted ==
    [][/\ pc' \in {"drain", "sleep"} => owed' \subseteq tried'
       /\ (pc = "markets" /\ pc' = "markets")
             => (state'.ai_usage = state.ai_usage /\ state'.insights = state.insights)]_vars

\* C8: a trade id enters the dedup set only when the delivery of its alert
\* returned true; when it returned false the id is not added, and the alert
\* is attempted again in the next tick in which the trade is fetched.
C8_FailedAlertRetried ==
    /\ pc = "markets" => notified_trade_ids \subseteq Range(state.trades) \cup delivered
    /\ (ev.kind = "whale" /\ ~ev.ok) => ev.id \notin notified_trade_ids
    /\ pc \in {"drain", "sleep"} => (retry \cap owed) \subseteq tried

\* C9: when the delivery of the chosen candidate's notification fails
\* (returns false, or the try block raises), the attempt leaves
\* ai_usage (count, last_sent_ts, categories) and the cooldown map unchanged.
C9_FailedDeliveryChangesNothing ==
    [][(ev' # ev /\ ev'.kind \in {"analysis", "raise"} /\ ~ev'.ok)
          => (state'.ai_usage = state.ai_usage /\ state'.insights = state.insights)]_vars

\* C9 witness: a delivery of the drain failed after another one of the same
\* drain succeeded.
C9_Witness ==
    /\ ev.kind = "analysis"
    /\ ~ev.ok
    /\ drain_sent # {}

\* C10: when the delivery of the chosen candidate's notification returns
\* false the drain loop stops for the tick: no further candidate is removed
\* and no further analysis or delivery call is made until the next tick.
C10_FailureStopsDrain ==
    ev.kind \in {"analysis", "raise"} => ~ev.after_fail

\* C11: whatever the reason the drain loop exits (budget, rate limit, empty
\* queue, no candidate off cooldown, error), when process_scheduler returns
\* the queue holds no candidate whose timestamp is 3600 seconds or more
\* older than now.
C11_QueuePrunedOnExit ==
    pc = "cleanup" =>
        \A c \in Range(insight_candidates) : clock - c.timestamp < CANDIDATE_TTL

\* C12: when the calendar date differs from ai_usage.date, at the end of the
\* first tick of the new date ai_usage.count = 0, ai_usage.categories = {}
\* and ai_usage.date = today (every tick ends with the date of its day, and
\* the cleanup pass that sees another date clears count and categories); the
\* cleanup pass drops a cooldown entry only when now - timestamp >= 86400
\* and alters none.
C12_DayChangeResets ==
    [][/\ (pc' = "sleep" /\ pc # "sleep") => state'.ai_usage.date = Date(clock')
       /\ (pc = "cleanup" /\ pc' = "save" /\ state.ai_usage.date # Date(clock))
             => /\ state'.ai_usage.count = 0
                /\ state'.ai_usage.categories = NoCategories
                /\ state'.ai_usage.date = Date(clock)
       /\ (pc = "cleanup" /\ pc' = "save")
             => \A s \in Slugs :
                  \/ state'.insights[s] = state.insights[s]
                  \/ /\ clock - state.insights[s] >= INSIGHT_TTL
                     /\ state'.insights[s] = 0]_vars

\* C13: between two states of the running process with the same
\* ai_usage.date, ai_usage.count never decreases; count is set to 0 only by
\* a cleanup pass that sees ai_usage.date different from today's date.
C13_CountMonotoneWithinDay ==
    [][(pc \notin {"down", "dead"} /\ pc' \notin {"down", "dead"})
          => /\ state'.ai_usage.date = state.ai_usage.date
                   => state'.ai_usage.count >= state.ai_usage.count
             /\ state'.ai_usage.count < state.ai_usage.count
                   => /\ state'.ai_usage.count = 0
                      /\ pc = "cleanup"
                      /\ pc' = "save"
                      /\ state.ai_usage.date # Date(clock)]_vars

\* C13 witness: a cleanup pass has just reset, on a date change, the
\* positive count that the file still holds.
C13_Witness ==
    /\ pc = "save"
    /\ disk.kind = "file"
    /\ disk.data.ai_usage.count > 0
    /\ disk.data.ai_usage.date # state.ai_usage.date
    /\ state.ai_usage.count = 0

\* C14: after every cleanup pass, state.trades has at most 5000 entries,
\* state.smart_positions at most 1000, and every cooldown entry has
\* now - timestamp < 86400.
C14_CapsAfterCleanup ==
    pc = "save" =>
        /\ Len(state.trades) <= MAX_TRADES
        /\ Len(state.smart_positions) <= MAX_POSITIONS
        /\ \A s \in Slugs :
             state.insights[s] # 0 => clock - state.insights[s] < INSIGHT_TTL

\* C14 witness: the cleanup pass has just dropped a trade id and a position
\* id that the file still holds.
C14_Witness ==
    /\ pc = "save"
    /\ disk.kind = "file"
    /\ Range(disk.data.trades) \ Range(state.trades) # {}
    /\ Range(disk.data.smart_positions) \ Range(state.smart_positions) # {}

\* C15: when a cleanup pass caps the trade dedup set, eviction is oldest
\* first: every evicted trade id was added to the set before every retained
\* trade id.
C15_OldestEvictedFirst ==
    [][(pc = "cleanup" /\ pc' = "save")
          => \A old \in Range(state.trades) \ Range(state'.trades) :
               \A kept \in Range(state'.trades) : old < kept]_vars

\* C16: at each drain iteration that selects a candidate, the selected one
\* has the maximum adjusted_score = score / (1 + 50 * category_usage) among
\* the queued candidates whose event is not on cooldown, ties going to the
\* candidate queued first; and of a politics candidate of raw score 1000
\* with usage 2 and a tech candidate of raw score 600 with usage 0, the tech
\* one is selected.
C16_BestAdjustedScoreSelected ==
    [][/\ (ev' # ev /\ ev'.kind \in {"analysis", "raise"})
             => LET q == insight_candidates
                    usage == state.ai_usage.categories
                    best == ev'.cand
                    Open(c) == ev'.now - state.insights[c.event_slug] >= EVENT_COOLDOWN
                    Above(c1, c2) ==
                        c1.score * (1 + 50 * usage[c2.event_category])
                            > c2.score * (1 + 50 * usage[c1.event_category])
                IN  \E i \in 1..Len(q) :
                      /\ q[i] = best
                      /\ Open(best)
                      /\ \A j \in 1..Len(q) :
                           Open(q[j]) => /\ ~Above(q[j], best)
                                         /\ j < i => Above(best, q[j])
       /\ LET politics == [score |-> 100000, event_slug |-> "a",
                           event_category |-> "politics", timestamp |-> StartClock]
              tech == [score |-> 60000, event_slug |-> "b",
                       event_category |-> "tech", timestamp |-> StartClock]
              st == [DefaultState(StartClock) EXCEPT
                        !.ai_usage.categories["politics"] = 2]
          IN  Best(<<politics, tech>>, st, StartClock) = tech]_vars

\* C16 witness: the candidate selected has a lower raw score than a queued
\* candidate of another event that is not on cooldown.
C16_Witness ==
    /\ ev.kind = "analysis"
    /\ \E c \in Range(insight_candidates) :
         /\ c.event_slug # ev.id
         /\ c.score > ev.cand.score
         /\ ev.now - state.insights[c.event_slug] >= EVENT_COOLDOWN

\* C17: for the raw score of any candidate that can be in the queue,
\* adjusted_score is strictly decreasing in category_usage[category]:
\* usage u1 < u2 gives adjusted_score(u1) > adjusted_score(u2).
C17_AdjustedScoreDecreasing ==
    \A c \in Range(insight_candidates) :
      \A u1, u2 \in 0..MAX_AI_CALLS_PER_DAY :
        u1 < u2 =>
          LET less_used == [c EXCEPT !.event_category = "tech"]
              more_used == [c EXCEPT !.event_category = "politics"]
              usage == [NoCategories EXCEPT !["tech"] = u1, !["politics"] = u2]
          IN  ~AdjustedGE(more_used, less_used, usage)

\* C17 witness: a candidate is queued whose category has been used.
C17_Witness ==
    \E c \in Range(insight_candidates) :
      state.ai_usage.categories[c.event_category] > 0

\* C18: load_state is never fatal and always returns a complete state (with
\* the file absent, corrupt or lacking sub-records the state has trades,
\* insights, smart_positions and an ai_usage record), so that startup and the
\* first tick's scheduler run without error: the process never dies of the
\* state it loaded.
C18_LoadedStateComplete == pc # "dead"

\* C19: the durable state is written atomically: at every moment, a
\* termination during save_state included, the file holds the complete state
\* saved before or the complete new state, and a following load_state returns
\* one of the two.
C19_FileNeverPartial == disk.kind # "corrupt"

\* C20: a fetch or parse error on a single trade or event (a price that is
\* not a number) skips only that item: the tick goes on, records the whale
\* ids delivered so far into state.trades, runs the drain loop and ends with
\* cleanup_state and save_state; every tick reaches its end through
\* save_state, with the delivered ids recorded.
C20_TickAlwaysPersists ==
    [][(pc' = "sleep" /\ pc # "sleep")
          => /\ pc \in {"save", "write"}
             /\ delivered \subseteq Range(state'.trades)]_vars

\* C21: when the analysis collaborator fails or returns nothing for the
\* chosen candidate, the notification is still submitted for delivery,
\* without the advisory section, and on confirmed delivery it is counted as a
\* notification with an advisory is: count and the category's usage go up by
\* one, last_sent_ts and the event's cooldown entry are set.
C21_NoAdvisoryStillDelivered ==
    [][(ev' # ev /\ ev'.kind = "analysis" /\ ~ev'.report)
          => /\ ~ev'.advisory
             /\ ev'.ok =>
                  /\ state'.ai_usage.count = state.ai_usage.count + 1
                  /\ state'.ai_usage.last_sent_ts = ev'.at
                  /\ state'.insights[ev'.id] = ev'.at
                  /\ state'.ai_usage.categories[ev'.cand.event_category]
                       = state.ai_usage.categories[ev'.cand.event_category] + 1]_vars

\* C21 witness: a notification without advisory was confirmed delivered.
C21_Witness ==
    /\ ev.kind = "analysis"
    /\ ~ev.report
    /\ ~ev.advisory
    /\ ev.ok

\* C22: in one drain the confirmed sends are at most MAX_AI_CALLS_PER_DAY
\* minus the count at the start of the drain; once count has reached
\* MAX_AI_CALLS_PER_DAY the loop stops, every queued candidate stays in the
\* queue and no analysis or delivery call is made; with count 12 of 13
\* exactly one is sent: never two, and one unless a delivery failed or every
\* queued candidate is on cooldown.
C22_DrainWithinBudget ==
    [][/\ pc' \in {"drain", "cleanup"}
             => Cardinality(drain_sent') <= MAX_AI_CALLS_PER_DAY - drain_start'
       /\ (pc' = "cleanup" /\ drain_start' = MAX_AI_CALLS_PER_DAY - 1
                           /\ ~drain_failed' /\ drain_sent' = {})
             => \A c \in Range(insight_candidates') :
                  clock' - state'.insights[c.event_slug] < EVENT_COOLDOWN
       /\ (pc = "drain" /\ state.ai_usage.count >= MAX_AI_CALLS_PER_DAY
                        /\ pc' # "down")
             => /\ pc' = "cleanup"
                /\ insight_candidates' = insight_candidates
                /\ ev'.kind = "none"
                /\ state' = state]_vars

\* C22 witness: a drain that began with count 12 has sent one notification
\* and stopped with a candidate left that is not on cooldown.
C22_Witness ==
    /\ pc = "cleanup"
    /\ drain_start = MAX_AI_CALLS_PER_DAY - 1
    /\ Cardinality(drain_sent) = 1
    /\ \E c \in Range(insight_candidates) :
         ~OnCooldown(state.insights, c.event_slug, clock)

\* C23 as claimed: when the configured interval is 60 seconds or more, no
\* candidate is selected while now - last_sent_ts is less than the interval,
\* hence at most one notification is confirmed per drain and any two
\* consecutive confirmed analysis notifications are at least the interval
\* apart; when the interval is below 60 the check is skipped and a drain
\* within budget stops only for want of a candidate off cooldown.
C23_IntervalBetweenAlerts ==
    [][/\ (min_seconds >= BURST_LIMIT /\ ev' # ev
                                     /\ ev'.kind \in {"analysis", "raise"})
             => ev'.now - state.ai_usage.last_sent_ts >= min_seconds
       /\ (min_seconds >= BURST_LIMIT /\ pc' \in {"drain", "cleanup"})
             => Cardinality(drain_sent') <= 1
       /\ (min_seconds >= BURST_LIMIT /\ ev' # ev /\ ev'.kind = "analysis" /\ ev'.ok)
             => \A s \in Slugs :
                  last_delivery[s] >= 0 => ev'.at - last_delivery[s] >= min_seconds
       /\ (min_seconds < BURST_LIMIT /\ pc = "drain" /\ pc' = "cleanup"
                                    /\ ev'.kind = "none"
                                    /\ state.ai_usage.count < MAX_AI_CALLS_PER_DAY)
             => \A c \in Range(insight_candidates) :
                  clock - state.insights[c.event_slug] < EVENT_COOLDOWN]_vars

\* C23 as amended: the same, the distance being kept between a confirmed
\* notification and the earlier ones that the state of the process records
\* (those not later than its last_sent_ts): those of the same run, and those
\* of earlier runs that were saved before the termination.
C23_IntervalBetweenKnownAlerts ==
    [][/\ (min_seconds >= BURST_LIMIT /\ ev' # ev
                                     /\ ev'.kind \in {"analysis", "raise"})
             => ev'.now - state.ai_usage.last_sent_ts >= min_seconds
       /\ (min_seconds >= BURST_LIMIT /\ pc' \in {"drain", "cleanup"})
             => Cardinality(drain_sent') <= 1
       /\ (min_seconds >= BURST_LIMIT /\ ev' # ev /\ ev'.kind = "analysis" /\ ev'.ok)
             => \A s \in Slugs :
                  (last_delivery[s] >= 0
                     /\ last_delivery[s] <= state.ai_usage.last_sent_ts)
                      => ev'.at - last_delivery[s] >= min_seconds
       /\ (min_seconds < BURST_LIMIT /\ pc = "drain" /\ pc' = "cleanup"
                                    /\ ev'.kind = "none"
                                    /\ state.ai_usage.count < MAX_AI_CALLS_PER_DAY)
             => \A c \in Range(insight_candidates) :
                  clock - state.insights[c.event_slug] < EVENT_COOLDOWN]_vars

\* C23 witness: under an interval of 60 seconds a drain within budget has
\* stopped after one notification with a candidate off cooldown left.
C23_Witness ==
    /\ min_seconds >= BURST_LIMIT
    /\ pc = "cleanup"
    /\ Cardinality(drain_sent) = 1
    /\ state.ai_usage.count < MAX_AI_CALLS_PER_DAY
    /\ \E c \in Range(insight_candidates) :
         clock - state.insights[c.event_slug] >= EVENT_COOLDOWN

\* C24: within one tick whale detection over all fetched trades is complete
\* before the drain loop starts (no market and no trade is left when it
\* starts, and no whale check happens outside the market loop), analysis
\* calls happen only in the drain loop, cleanup_state starts only from the
\* finished drain loop and touches neither queue nor file, and save_state
\* starts only after cleanup_state; the file is written by save_state alone.
C24_TickStepsOrdered ==
    [][/\ (pc' = "drain" /\ pc # "drain")
             => pc = "markets" /\ events = << >> /\ batch = << >>
       /\ (ev' # ev /\ ev'.kind \in {"whale", "skip"})
             => pc = "markets" /\ pc' = "markets"
       /\ (ev' # ev /\ ev'.kind \in {"analysis", "raise"}) => pc = "drain"
       /\ (pc = "drain" /\ pc' # "down")
             => /\ notified_trade_ids' = notified_trade_ids
                /\ state'.trades = state.trades
       /\ (pc' = "cleanup" /\ pc # "cleanup") => pc = "drain"
       /\ (pc' = "save" /\ pc # "save")
             => /\ pc = "cleanup"
                /\ state' = cleanup_state(state, clock)
                /\ insight_candidates' = insight_candidates
       /\ (pc' = "write" /\ pc # "write") => pc = "save"
       /\ disk' # disk => pc \in {"save", "write"}]_vars

\* C24 witness: the drain loop calls the analysis in the first tick of a
\* run whose whale detection delivered an alert in that tick.
C24_Witness ==
    /\ pc = "drain"
    /\ ev.kind = "analysis"
    /\ ticks = 1
    /\ restarts = 0
    /\ state.trades # << >>

\* ------------------------------------------------- the collector on its own

\* The longest batch of trades given to the collector.
MaxBatch == 3

\* The trades a batch is made of, and the batches in every arrival order.
CollectorTrades == {Whale1, Whale2, Small1, Small2, BadPrice}
CollectorBatches == UNION { [1..n -> CollectorTrades] : n \in 0..MaxBatch }

\* monitor_markets holds the trades fetched for one market of event a
InitCollector ==
    /\ NoHistory
    /\ pc = "markets"
    /\ events = <<EventA>>
    /\ batch \in CollectorBatches
    /\ disk = AbsentFile
    /\ min_seconds = MIN_SECONDS_BETWEEN_AI_ALERTS

\* "analysis = analyze_market_activity(trades); if analysis: ... append"
Collect ==
    /\ pc = "markets"
    /\ LET analysis == analyze_market_activity(batch)
       IN  /\ pc' = CASE analysis.res = "ok" -> "collected"
                      [] analysis.res = "none" -> "quiet"
                      [] OTHER -> "raised"
           /\ insight_candidates' =
                IF analysis.res = "ok"
                THEN Append(insight_candidates,
                            Candidate(Head(events), analysis, clock))
                ELSE insight_candidates
    /\ UNCHANGED <<clock, state, disk, events, batch, notified_trade_ids, ticks,
                   restarts, ev, day_ghosts, whale_ghosts, drain_ghosts, failed,
                   min_seconds>>

NextCollector == Collect

SpecCollector == InitCollector /\ [][NextCollector]_vars

\* C25: once the collector has handled a batch, a candidate was emitted if
\* and only if the total value of the batch (a malformed field counting as
\* zero) exceeds 5000 or the price of the trade with the latest timestamp
\* differs by more than 0.05 from the price of the trade with the earliest
\* one, in whatever order the trades arrived; and the emitted raw score is
\* total_volume + 10000 * |price_delta|.
C25_EmittedIffInteresting ==
    pc \in {"collected", "quiet", "raised"} =>
        LET trades == Range(batch)
            value == TotalVolume(batch)
            delta ==
                IF trades = {} THEN 0
                ELSE LET earliest == CHOOSE t \in trades :
                                       \A u \in trades : t.timestamp <= u.timestamp
                         latest == CHOOSE t \in trades :
                                     \A u \in trades : u.timestamp <= t.timestamp
                     IN  latest.price - earliest.price
        IN  /\ pc = "collected"
                  <=> (value > VOLUME_THRESHOLD * 100 \/ Abs(delta) > MOVE_THRESHOLD)
            /\ pc = "collected"
                  => /\ Len(insight_candidates) = 1
                     /\ insight_candidates[1].score = value + PRICE_WEIGHT * Abs(delta)

\* C26: in an iteration that selects a candidate, the chosen one is queued
\* and off cooldown, one occurrence of it leaves the queue in that same step
\* (before the analysis and delivery calls return), and every other queued
\* candidate, those on cooldown included, stays as often as it was queued
\* (when the iteration raises, save those older than an hour, which the
\* prune drops); and the loop gives up for want of a candidate only when
\* every queued candidate is on cooldown.
C26_PassedOverNotConsumed ==
    [][/\ (ev' # ev /\ ev'.kind \in {"analysis", "raise"})
             => LET q == insight_candidates
                    Count(r, c) == Cardinality({i \in 1..Len(r) : r[i] = c})
                IN  /\ ev'.cand \in Range(q)
                    /\ ev'.now - state.insights[ev'.cand.event_slug] >= EVENT_COOLDOWN
                    /\ Count(insight_candidates', ev'.cand) < Count(q, ev'.cand)
                    /\ Len(insight_candidates') = Len(q) - 1 \/ ev'.kind = "raise"
                    /\ \A c \in Range(q) \ {ev'.cand} :
                         \/ Count(insight_candidates', c) = Count(q, c)
                         \/ /\ ev'.kind = "raise"
                            /\ ev'.now - c.timestamp >= CANDIDATE_TTL
                            /\ Count(insight_candidates', c) = 0
       /\ (pc = "drain" /\ pc' = "cleanup" /\ ev'.kind = "none"
                        /\ ~BudgetReached(state.ai_usage.count)
                        /\ ~TooSoon(clock, state.ai_usage.last_sent_ts, min_seconds))
             => /\ insight_candidates' = insight_candidates
                /\ \A c \in Range(insight_candidates) :
                     OnCooldown(state.insights, c.event_slug, clock)]_vars

\* C26 witness: a candidate was selected, its delivery failed, and the queue
\* still holds a candidate of another event that is on cooldown and whose
\* adjusted score is at least the selected one's.
C26_Witness ==
    /\ ev.kind = "analysis"
    /\ ~ev.ok
    /\ \E c \in Range(insight_candidates) :
         /\ c.event_slug # ev.cand.event_slug
         /\ OnCooldown(state.insights, c.event_slug, ev.now)
         /\ AdjustedGE(c, ev.cand, state.ai_usage.categories)

\* ------------------------------------------------ the drain loop keeps going

\* process_scheduler is sequential code: a started iteration of its while
\* loop runs to its return, break or next iteration unless the process is
\* terminated.
DrainStep == DrainReturn \/ DrainSend \/ DrainRaise

\* The seconds between the ticks of such a run.
LiveDelays == {TICK_SLEEP, EVENT_COOLDOWN}

\* The process left running, never terminated, with no whale trade and no
\* failing save; the analysis and the delivery fail or succeed at will.
NextLive ==
    \/ Start
    \/ BeginTick(FetchPlans, MaxTicks)
    \/ FetchTrades(DayBatches, MaxQueue)
    \/ WhaleSkip
    \/ UpdateTrades
    \/ DrainReturn
    \/ DrainSend
    \/ DrainRaise
    \/ CleanupState
    \/ SaveOpen
    \/ SaveWrite
    \/ Sleep(LiveDelays, MaxTicks)

SpecLive == Init /\ [][NextLive]_vars /\ WF_vars(DrainStep)

\* C27: every drain loop that starts comes to an end, whatever the queue
\* holds and whatever the delivery calls return: an iteration either leaves
\* the loop or leaves the queue one candidate shorter, and no step taken
\* while the loop runs makes the queue longer.
C27_DrainTerminates ==
    /\ [][pc = "drain" => \/ pc' # "drain"
                          \/ Len(insight_candidates') = Len(insight_candidates) - 1]_vars
    /\ (pc = "drain") ~> (pc # "drain")

\* C27 witness: a drain loop has ended after two iterations that removed a
\* candidate each, the first of which failed to deliver.
C27_Witness ==
    /\ pc = "cleanup"
    /\ drain_failed
    /\ Cardinality(drain_sent) = 1
    /\ drain_start + 1 = state.ai_usage.count

\* C28: every trade id whose whale alert was confirmed delivered in a tick
\* is in state.trades when the tick's market loop is left, however it is
\* left (its end, or an error in a later market), and no later step of the
\* tick (scheduler, cleanup_state, save_state) takes an id out of
\* state.trades again.
C28_DeliveredIdsRecorded ==
    [][/\ (pc = "markets" /\ pc' \notin {"markets", "down"})
             => delivered \subseteq Range(state'.trades)
       /\ (pc \in {"drain", "cleanup", "save", "write"} /\ pc' # "down")
             => Range(state.trades) \subseteq Range(state'.trades)]_vars

\* ------------------------------------------------ runs from a fresh state

\* The files that give a first start the fresh default state: none, an
\* unreadable one, or the default state as saved on the day before or on
\* this day.
FreshFiles ==
    {AbsentFile, CorruptFile} \cup
    { SavedFile(DefaultState(t)) : t \in {StartClock - SECONDS_PER_DAY, StartClock} }

InitFresh ==
    /\ NotStarted
    /\ disk \in FreshFiles
    /\ min_seconds = MIN_SECONDS_BETWEEN_AI_ALERTS

SpecFresh == InitFresh /\ [][Next]_vars

\* C29: from a fresh default state, at every moment of every run the usages
\* of all categories add up to ai_usage.count; a confirmed delivery raises
\* count and the usage of the candidate's category by one each, leaves the
\* other categories, and sets last_sent_ts and the event's cooldown entry;
\* and whenever cleanup_state finds the date changed, count and all usages
\* are zero after it.
C29_CategoriesSumToCount ==
    /\ [](LET total[S \in SUBSET Categories] ==
                  IF S = {} THEN 0
                  ELSE LET c == CHOOSE x \in S : TRUE
                       IN  state.ai_usage.categories[c] + total[S \ {c}]
          IN  total[Categories] = state.ai_usage.count)
    /\ [][/\ (ev' # ev /\ ev'.kind = "analysis" /\ ev'.ok)
                => /\ state'.ai_usage.count = state.ai_usage.count + 1
                   /\ \A c \in Categories :
                        state'.ai_usage.categories[c] =
                            state.ai_usage.categories[c]
                              + (IF c = ev'.cand.event_category THEN 1 ELSE 0)
                   /\ state'.ai_usage.last_sent_ts = ev'.at
                   /\ state'.insights[ev'.id] = ev'.at
          /\ (pc = "cleanup" /\ pc' = "save" /\ state.ai_usage.date # Date(clock))
                => /\ state'.ai_usage.count = 0
                   /\ state'.ai_usage.categories = NoCategories]_vars

\* C29 witness: notifications of two categories have been confirmed in a
\* run that started from a fresh state.
C29_Witness ==
    /\ ev.kind = "analysis"
    /\ ev.ok
    /\ state.ai_usage.categories["politics"] >= 1
    /\ state.ai_usage.categories["tech"] >= 1

\* C30: no candidate is submitted for analysis when it is 3600 seconds old
\* or older: whenever the scheduler selects a candidate, less than 3600
\* seconds have passed since the candidate was queued.
C30_NoStaleCandidateSelected ==
    ev.kind \in {"analysis", "raise"} => ev.now - ev.cand_ts < CANDIDATE_TTL

====
